---- MODULE Spec2Model ----
(***************************************************************************)
(* Model of the lazy level loading of ldtk-ts (class World, src/index.ts). *)
(* A World in external-levels mode starts with no Level; loadLevel and     *)
(* loadLevels fetch the level files asynchronously and insert the Levels   *)
(* into the three indices levelMap, levelIds and levels.                   *)
(*                                                                         *)
(* JavaScript values are modelled as follows.                              *)
(*   - levelMap is a plain object: a function whose DOMAIN is the set of   *)
(*     its own keys; a read of a key falls back to Object.prototype.       *)
(*   - levelIds and levels are arrays: sequences whose holes (indices      *)
(*     never assigned) hold Hole / NoLevel; array index i is position i+1. *)
(*   - a Level object is a record; its field obj is the identity of the    *)
(*     object (the number of the fetch that constructed it).               *)
(*   - a promise returned by an async method is a record of calls; the     *)
(*     promise of fetchLevel is a record of fetches.                       *)
(*   - the private field neighbours_ of the Level objects is a heap: a     *)
(*     function from object identities to the value of the field.          *)
(*                                                                         *)
(* The repository holds two sources of the library, src/index.ts and an    *)
(* unnamed one; where they differ the variable source says which one runs. *)
(***************************************************************************)
EXTENDS Integers, Sequences, FiniteSets, TLC

(* ---------------------------- bounds ----------------------------------- *)

\* largest number of raw level records of the project file
MaxLevels == 2
\* largest number of calls of World methods in one run
MaxCalls == 3

(* ---------------------------- inputs ----------------------------------- *)

\* identifiers the level editor gives to the levels, in array order
LevelNames == <<"Level1", "Level2", "Level3", "Level4">>

\* names of the external level files, in array order
LevelPaths == <<"Level1.ldtkl", "Level2.ldtkl", "Level3.ldtkl", "Level4.ldtkl">>

\* an identifier that no raw level record carries
AbsentName == "Nowhere"

\* the keys every plain object inherits from Object.prototype that a caller
\* may pass as an identifier
ObjectPrototypeKeys == {"constructor"}

\* the identifiers a caller passes to loadLevel / unloadLevel
CallerIdentifiers(n) ==
    {LevelNames[i] : i \in 1..n} \cup {AbsentName} \cup ObjectPrototypeKeys

\* the two sources of the library
Sources == {"src/index.ts", "unnamed/part_002"}

\* __neighbours of the i-th of n levels of a linear world layout: the
\* previous level to the west, then the next level to the east
NeighboursOf(i, n) ==
    (IF i > 1 THEN <<[dir |-> "w", levelUid |-> i - 1]>> ELSE << >>)
        \o (IF i < n THEN <<[dir |-> "e", levelUid |-> i + 1]>> ELSE << >>)

\* the raw level array of a project saved with separate level files:
\* record i carries identifier, uid and externalRelPath, and no layers
RawLevels(n) ==
    [i \in 1..n |-> [identifier |-> LevelNames[i],
                     uid |-> i,
                     externalRelPath |-> LevelPaths[i]]]

(* ---------------------------- values ----------------------------------- *)

\* undefined, read from a Level-valued slot
NoLevel == [id |-> "", uid |-> 0, obj |-> 0]
\* undefined, read from a string-valued slot
Hole == ""
\* what a read of an inherited key yields: a function object, not a Level
ProtoMember == [id |-> "", uid |-> 0, obj |-> -1]

\* new Level(world, raw): id and uid read the raw record; obj is the
\* identity of the new object
NewLevel(raw, obj) == [id |-> raw.identifier, uid |-> raw.uid, obj |-> obj]

\* this.levelMap[key] on a plain object
LevelMapGet(map, key) ==
    IF key \in DOMAIN map THEN map[key]
    ELSE IF key \in ObjectPrototypeKeys THEN ProtoMember
    ELSE NoLevel

\* (map as Record<string, Level>)[key] = value
LevelMapSet(map, key, value) ==
    [k \in (DOMAIN map) \cup {key} |-> IF k = key THEN value ELSE map[k]]

\* arr[index] = value on a JavaScript array (index from 0): an index at or
\* past the length extends the array and leaves holes in between
ArraySet(arr, index, value, hole) ==
    IF index + 1 <= Len(arr)
    THEN [arr EXCEPT ![index + 1] = value]
    ELSE [k \in 1..(index + 1) |->
            IF k <= Len(arr) THEN arr[k]
            ELSE IF k = index + 1 THEN value
            ELSE hole]

\* the value null of the field neighbours_
NullList == [isNull |-> TRUE, list |-> <<0, 0>>, items |-> << >>]

\* a new empty array []; list is the identity of the array object
EmptyList(list) == [isNull |-> FALSE, list |-> list, items |-> << >>]

\* the field initialiser of Level.neighbours_ for the Level object obj:
\* an empty array in src/index.ts, null in the other source
InitialNeighbours_(src, obj) ==
    IF src = "src/index.ts" THEN EmptyList(<<obj, 0>>) ELSE NullList

\* the heap with the field of object obj set to value
HeapSet(heap, obj, value) ==
    [o \in (DOMAIN heap) \cup {obj} |-> IF o = obj THEN value ELSE heap[o]]

VARIABLES
    data,       \* the raw project: data.levels, data.externalLevels
    levelMap,   \* World.levelMap
    levelIds,   \* World.levelIds
    levels,     \* World.levels
    calls,      \* the promises returned by the calls made so far
    fetches,    \* the promises returned by fetchLevel so far
    source,     \* the source of the library that runs
    isBrowser,  \* util.ts: the library runs in a browser, else in Node
    neighbours_, \* Level.neighbours_ of every Level object constructed
    accesses,   \* the outcomes of the reads of Level.neighbours so far
    tilesetMap, \* World.tilesetMap
    tilesets,   \* World.tilesets
    enumMap,    \* World.enumMap
    made        \* the objects constructed from raw records so far

\* the definition tables of the World and the objects built from them
ctorVars == <<tilesetMap, tilesets, enumMap, made>>

vars == <<data, levelMap, levelIds, levels, calls, fetches,
          source, isBrowser, neighbours_, accesses, ctorVars>>

(* ------------------------- World.constructor --------------------------- *)

\* the World right after fromJSON of a project with separate level files:
\* the constructor leaves levelMap, levelIds and levels empty
Init ==
    /\ \E n \in 0..MaxLevels :
          data = [externalLevels |-> TRUE, levels |-> RawLevels(n)]
    /\ levelMap = << >>
    /\ levelIds = << >>
    /\ levels = << >>
    /\ calls = << >>
    /\ fetches = << >>
    /\ source \in Sources
    /\ isBrowser \in BOOLEAN
    /\ neighbours_ = << >>
    /\ accesses = << >>
    /\ tilesetMap = << >>
    /\ tilesets = << >>
    /\ enumMap = << >>
    /\ made = << >>

(* ---------------------------- helpers ---------------------------------- *)

\* the raw level record stored in the external file at a path: the record
\* of the project file completed with the sections left out there
FileAt(path) ==
    LET i == CHOOSE k \in 1..Len(LevelPaths) : LevelPaths[k] = path
    IN  [identifier |-> LevelNames[i], uid |-> i,
         __neighbours |-> NeighboursOf(i, Len(data.levels))]

\* the "don't load twice" test of loadLevel and loadLevels
\* (mutant: the test is left out)
AlreadyLoadedNever(map, identifier) == FALSE
AlreadyLoaded(map, identifier) == LevelMapGet(map, identifier) # NoLevel

\* the search loop of loadLevel: the first index (from 0) whose record has
\* the identifier, or -1
FindLevelIndex(rawLevels, identifier) ==
    IF \E i \in 1..Len(rawLevels) : rawLevels[i].identifier = identifier
    THEN (CHOOSE i \in 1..Len(rawLevels) :
            /\ rawLevels[i].identifier = identifier
            /\ \A j \in 1..(i - 1) : rawLevels[j].identifier # identifier) - 1
    ELSE -1

\* a promise of fetchLevel(path) issued by call c for array index i
NewFetch(c, i, path) ==
    [call |-> c, index |-> i, path |-> path, state |-> "inflight", uncaught |-> "none"]

\* a promise returned by a World method
NewCall(kind, arg, state, err) ==
    [kind |-> kind, arg |-> arg, state |-> state, err |-> err]

\* the fetches issued by call c
FetchesOf(c) == {f \in 1..Len(fetches) : fetches[f].call = c}

(* --------------------------- World.loadLevel --------------------------- *)

\* loadLevel(identifier) up to its await: returns at once when the level is
\* loaded, throws when no raw record has the identifier, and otherwise
\* issues the fetch and suspends
LoadLevel(identifier) ==
    /\ Len(calls) + Len(accesses) < MaxCalls
    /\ LET c == Len(calls) + 1
           levelIndex == FindLevelIndex(data.levels, identifier)
       IN  IF AlreadyLoaded(levelMap, identifier)
           THEN /\ calls' = Append(calls, NewCall("loadLevel", identifier, "resolved", "none"))
                /\ UNCHANGED fetches
           ELSE IF levelIndex = -1
           THEN /\ calls' = Append(calls, NewCall("loadLevel", identifier, "rejected", "LevelNotFound"))
                /\ UNCHANGED fetches
           ELSE /\ calls' = Append(calls, NewCall("loadLevel", identifier, "pending", "none"))
                /\ fetches' = Append(fetches,
                       NewFetch(c, levelIndex, data.levels[levelIndex + 1].externalRelPath))
    /\ UNCHANGED <<data, levelMap, levelIds, levels>>
    /\ UNCHANGED <<source, isBrowser, neighbours_, accesses, ctorVars>>

\* the three assignments that insert a loaded Level at its array index
InsertLevelMap(map, loaded) == LevelMapSet(map, loaded.id, loaded)
\* (mutant: the id is pushed instead of stored at its index)
InsertLevelIdsPush(ids, index, loaded) == Append(ids, loaded.id)
InsertLevelIds(ids, index, loaded) == ArraySet(ids, index, loaded.id, Hole)
\* (mutant: the Level is pushed instead of stored at its index)
InsertLevelsPush(lvls, index, loaded) == Append(lvls, loaded)
InsertLevels(lvls, index, loaded) == ArraySet(lvls, index, loaded, NoLevel)

\* loadLevel after its await: the fetch of call c has produced a Level; it
\* is written into the three indices at levelIndex and the call returns
LoadLevelResume(f) ==
    /\ f \in 1..Len(fetches)
    /\ fetches[f].state = "inflight"
    /\ calls[fetches[f].call].kind = "loadLevel"
    /\ LET loaded == NewLevel(FileAt(fetches[f].path), f)
           levelIndex == fetches[f].index
       IN  /\ levelMap' = InsertLevelMap(levelMap, loaded)
           /\ levelIds' = InsertLevelIds(levelIds, levelIndex, loaded)
           /\ levels' = InsertLevels(levels, levelIndex, loaded)
    /\ fetches' = [fetches EXCEPT ![f].state = "ok"]
    /\ calls' = [calls EXCEPT ![fetches[f].call].state = "resolved"]
    /\ neighbours_' = HeapSet(neighbours_, f, InitialNeighbours_(source, f))
    /\ UNCHANGED <<data, source, isBrowser, accesses, ctorVars>>

(* --------------------------- World.loadLevels -------------------------- *)

\* the loop of loadLevels from array index i (from 0) on: one fetch for
\* every record that is not loaded and has an externalRelPath
RECURSIVE IssueFetches(_, _, _, _, _)
IssueFetches(rawLevels, map, c, i, promises) ==
    IF i >= Len(rawLevels) THEN promises
    ELSE LET level == rawLevels[i + 1]
         IN  IF AlreadyLoaded(map, level.identifier)
             THEN IssueFetches(rawLevels, map, c, i + 1, promises)
             ELSE IssueFetches(rawLevels, map, c, i + 1,
                               Append(promises, NewFetch(c, i, level.externalRelPath)))

\* Promise.all over the fetches' states: rejected as soon as one of them has
\* failed, resolved once all of them have succeeded, pending otherwise
\* (mutant: the fetches are not awaited)
PromiseAllNoWait(states) ==
    IF "failed" \in states THEN "rejected" ELSE "resolved"
PromiseAll(states) ==
    IF "failed" \in states THEN "rejected"
    ELSE IF "inflight" \in states THEN "pending"
    ELSE "resolved"

\* loadLevels() up to its await
LoadLevels ==
    /\ Len(calls) + Len(accesses) < MaxCalls
    /\ LET c == Len(calls) + 1
           promises == IssueFetches(data.levels, levelMap, c, 0, << >>)
           state == PromiseAll({promises[k].state : k \in 1..Len(promises)})
       IN  /\ fetches' = fetches \o promises
           /\ calls' = Append(calls, NewCall("loadLevels", "", state, "none"))
    /\ UNCHANGED <<data, levelMap, levelIds, levels>>
    /\ UNCHANGED <<source, isBrowser, neighbours_, accesses, ctorVars>>

\* the then-callback of one fetch of loadLevels: the Level is written into
\* the three indices at index i; the call returns when Promise.all settles
LoadLevelsThen(f) ==
    /\ f \in 1..Len(fetches)
    /\ fetches[f].state = "inflight"
    /\ calls[fetches[f].call].kind = "loadLevels"
    /\ LET loaded == NewLevel(FileAt(fetches[f].path), f)
           i == fetches[f].index
           c == fetches[f].call
       IN  /\ levelMap' = InsertLevelMap(levelMap, loaded)
           /\ levelIds' = InsertLevelIds(levelIds, i, loaded)
           /\ levels' = InsertLevels(levels, i, loaded)
           /\ fetches' = [fetches EXCEPT ![f].state = "ok"]
           /\ calls' = [calls EXCEPT ![c].state =
                  IF calls[c].state = "pending"
                  THEN PromiseAll({fetches'[k].state : k \in FetchesOf(c)})
                  ELSE calls[c].state]
    /\ neighbours_' = HeapSet(neighbours_, f, InitialNeighbours_(source, f))
    /\ UNCHANGED <<data, source, isBrowser, accesses, ctorVars>>

(* ------------------------ fetchLevel / loadJSON ------------------------ *)

\* the read of the level file fails: the promise of fetchLevel is rejected
\* with the I/O error, no Level is constructed and nothing is written; an
\* awaiting loadLevel, or the Promise.all of a loadLevels that has not
\* settled yet, is rejected with that error
\* (mutant: a failure discards the levels loaded so far)
\* In Node the callback of fs.readFile calls reject(err) and goes on to
\* resolve(JSON.parse(data)) with data undefined: JSON.parse throws a
\* SyntaxError in the callback, outside every promise
Uncaught(browser) == IF browser THEN "none" ELSE "SyntaxError"
FetchFailsRollback(f) ==
    /\ f \in 1..Len(fetches)
    /\ fetches[f].state = "inflight"
    /\ fetches' = [fetches EXCEPT ![f].state = "failed", ![f].uncaught = Uncaught(isBrowser)]
    /\ LET c == fetches[f].call
       IN  calls' = IF calls[c].state = "pending"
                    THEN [calls EXCEPT ![c].state = "rejected", ![c].err = "IOError"]
                    ELSE calls
    /\ levelMap' = << >>
    /\ levelIds' = << >>
    /\ levels' = << >>
    /\ UNCHANGED <<data, source, isBrowser, neighbours_, accesses, ctorVars>>
FetchFails(f) ==
    /\ f \in 1..Len(fetches)
    /\ fetches[f].state = "inflight"
    /\ fetches' = [fetches EXCEPT ![f].state = "failed", ![f].uncaught = Uncaught(isBrowser)]
    /\ LET c == fetches[f].call
       IN  calls' = IF calls[c].state = "pending"
                    THEN [calls EXCEPT ![c].state = "rejected", ![c].err = "IOError"]
                    ELSE calls
    /\ UNCHANGED <<data, levelMap, levelIds, levels>>
    /\ UNCHANGED <<source, isBrowser, neighbours_, accesses, ctorVars>>

(* ------------------ World.findLevel, Level.neighbours ------------------ *)

\* the loop of findLevel with the predicate of findLevelByUid, from array
\* index i (from 0) on: the first Level with the uid, or undefined; the read
\* of l.uid on an empty slot of levels throws a TypeError
RECURSIVE FindLevelFrom(_, _, _)
FindLevelFrom(lvls, uid, i) ==
    IF i >= Len(lvls) THEN [raised |-> FALSE, found |-> NoLevel]
    ELSE IF lvls[i + 1] = NoLevel THEN [raised |-> TRUE, found |-> NoLevel]
    ELSE IF lvls[i + 1].uid = uid THEN [raised |-> FALSE, found |-> lvls[i + 1]]
    ELSE FindLevelFrom(lvls, uid, i + 1)

\* world.findLevelByUid(uid)
FindLevelByUid(lvls, uid) == FindLevelFrom(lvls, uid, 0)

\* this.data of a Level object: the record of the level file it was
\* constructed from, or the embedded record
LevelData(level) ==
    IF data.externalLevels
    THEN FileAt(fetches[level.obj].path)
    ELSE data.levels[level.obj]

\* the loop of the getter from raw entry i (from 0) on: items is the array
\* built so far, lookups counts the calls of findLevelByUid; the loop is
\* left by the error of the sanity check or by the TypeError of findLevel
RECURSIVE ResolveFrom(_, _, _, _, _)
ResolveFrom(lvls, raws, i, items, lookups) ==
    IF i >= Len(raws)
    THEN [items |-> items, raised |-> "none", errUid |-> 0, lookups |-> lookups]
    ELSE LET ref == FindLevelByUid(lvls, raws[i + 1].levelUid)
         IN  IF ref.raised
             THEN [items |-> items, raised |-> "TypeError", errUid |-> 0,
                   lookups |-> lookups + 1]
             ELSE IF ref.found = NoLevel
             THEN [items |-> items, raised |-> "NeighbourMissing",
                   errUid |-> raws[i + 1].levelUid, lookups |-> lookups + 1]
             ELSE ResolveFrom(lvls, raws, i + 1,
                      Append(items, [dir |-> raws[i + 1].dir, level |-> ref.found]),
                      lookups + 1)

\* the test of the getter that decides whether the raw entries are resolved
\* (mutant: they are resolved on every read)
NeedsResolvingAlways(cache) == TRUE
NeedsResolving(cache) == cache.isNull

\* the outcome of one read of level.neighbours: the error raised, the uid
\* and the level identifier its message names, the array returned
NewAccess(obj, raised, errUid, errLevel, list, items, lookups) ==
    [obj |-> obj, raised |-> raised, errUid |-> errUid, errLevel |-> errLevel,
     list |-> list, items |-> items, lookups |-> lookups]

\* a read of world.levels[i].neighbours: resolves the raw entries when
\* neighbours_ is null, storing the new array in neighbours_ before the
\* loop, and returns neighbours_
GetNeighbours(i) ==
    /\ Len(calls) + Len(accesses) < MaxCalls
    /\ i \in 1..Len(levels)
    /\ levels[i] # NoLevel
    /\ LET level == levels[i]
           obj == level.obj
           k == Len(accesses) + 1
           r == ResolveFrom(levels, LevelData(level).__neighbours, 0, << >>, 0)
       IN  IF NeedsResolving(neighbours_[obj])
           THEN /\ neighbours_' = [neighbours_ EXCEPT ![obj] =
                       [isNull |-> FALSE, list |-> <<obj, k>>, items |-> r.items]]
                /\ accesses' = Append(accesses,
                       IF r.raised = "none"
                       THEN NewAccess(obj, "none", 0, "", <<obj, k>>, r.items, r.lookups)
                       ELSE NewAccess(obj, r.raised, r.errUid,
                                IF r.raised = "NeighbourMissing"
                                THEN LevelData(level).identifier ELSE "",
                                <<0, 0>>, << >>, r.lookups))
           ELSE /\ accesses' = Append(accesses,
                       NewAccess(obj, "none", 0, "", neighbours_[obj].list,
                                 neighbours_[obj].items, 0))
                /\ UNCHANGED neighbours_
    /\ UNCHANGED <<data, levelMap, levelIds, levels, calls, fetches, source, isBrowser, ctorVars>>

(* -------------------------- World.unloadLevel -------------------------- *)

\* class World declares no member unloadLevel: the property read yields
\* undefined, the call throws a TypeError and the World is left as it was
UnloadLevel(identifier) ==
    /\ Len(calls) + Len(accesses) < MaxCalls
    /\ calls' = Append(calls, NewCall("unloadLevel", identifier, "rejected", "TypeError"))
    /\ UNCHANGED <<data, levelMap, levelIds, levels, fetches>>
    /\ UNCHANGED <<source, isBrowser, neighbours_, accesses, ctorVars>>

Next ==
    \/ \E identifier \in CallerIdentifiers(Len(data.levels)) : LoadLevel(identifier)
    \/ \E f \in 1..Len(fetches) : LoadLevelResume(f)
    \/ LoadLevels
    \/ \E f \in 1..Len(fetches) : LoadLevelsThen(f)
    \/ \E f \in 1..Len(fetches) : FetchFails(f)
    \/ \E i \in 1..Len(levels) : GetNeighbours(i)
    \/ \E identifier \in CallerIdentifiers(Len(data.levels)) : UnloadLevel(identifier)

Spec == Init /\ [][Next]_vars

(* ------------- World.constructor of an embedded project ---------------- *)

\* null, read from a number-valued field of a raw record
Null == -1

\* undefined or null, read from a Tileset-valued slot
NoTileset == [id |-> "", uid |-> Null]

\* the definitions section of a project: two tilesets, two enums of the
\* project (one with an icon tileset), one enum of an external file, and
\* two entity definitions (one with a tileset), and the definition of an
\* IntGrid layer with two values
SomeDefs ==
    [absent |-> FALSE,
     tilesets |-> <<[identifier |-> "Tiles", uid |-> 1],
                    [identifier |-> "Icons", uid |-> 2]>>,
     enums |-> <<[identifier |-> "Color", uid |-> 3, iconTilesetUid |-> 2],
                 [identifier |-> "Shape", uid |-> 4, iconTilesetUid |-> Null]>>,
     externalEnums |-> <<[identifier |-> "Sound", uid |-> 5, iconTilesetUid |-> Null]>>,
     entities |-> <<[identifier |-> "Player", uid |-> 6, tilesetId |-> 1],
                    [identifier |-> "Item", uid |-> 7, tilesetId |-> Null]>>,
     layers |-> <<[identifier |-> "Ground", uid |-> 10,
                   intGridValues |-> <<[color |-> "#000000", identifier |-> "wall"],
                                       [color |-> "#ff0000", identifier |-> "lava"]>>]>>]

\* a project without a definitions section (data.defs is null)
NoDefs ==
    [absent |-> TRUE, tilesets |-> << >>, enums |-> << >>,
     externalEnums |-> << >>, entities |-> << >>, layers |-> << >>]

\* the sequences of at most n elements of the set S
RECURSIVE SeqsUpTo(_, _)
SeqsUpTo(S, n) ==
    IF n = 0 THEN {<< >>}
    ELSE LET shorter == SeqsUpTo(S, n - 1)
         IN  shorter \cup {Append(q, x) : q \in shorter, x \in S}

\* the raw level arrays of embedded projects: record i carries an
\* identifier (two records may carry the same one), the uid i and the
\* neighbours of a linear layout
EmbeddedLevels ==
    {[i \in 1..Len(names) |->
         [identifier |-> names[i], uid |-> i,
          __neighbours |-> NeighboursOf(i, Len(names))]] :
      names \in SeqsUpTo({LevelNames[j] : j \in 1..MaxLevels}, MaxLevels + 1)}

\* new Tileset(world, raw)
NewTileset(raw) == [id |-> raw.identifier, uid |-> raw.uid]

\* map[key] = value on a plain object, and Object.keys after it: keys lists
\* the own keys in the order of their first assignment
ObjectSet(object, key, value) ==
    [map |-> LevelMapSet(object.map, key, value),
     keys |-> IF key \in DOMAIN object.map THEN object.keys
              ELSE Append(object.keys, key)]

\* Object.values(map) of a plain object with the keys in order
ObjectValues(object) == [k \in 1..Len(object.keys) |-> object.map[object.keys[k]]]

\* the empty plain object {}
EmptyObject == [map |-> << >>, keys |-> << >>]

\* the tileset loop of the constructor from index i (from 0) on
RECURSIVE LoadTilesets(_, _, _)
LoadTilesets(raws, i, object) ==
    IF i >= Len(raws) THEN object
    ELSE LoadTilesets(raws, i + 1,
            ObjectSet(object, raws[i + 1].identifier, NewTileset(raws[i + 1])))

\* the assignment of the level loop of the constructor
\* (mutant: a Level already stored under the identifier is kept)
EmbeddedInsertKeepFirst(object, level) ==
    IF level.id \in DOMAIN object.map THEN object
    ELSE ObjectSet(object, level.id, level)
EmbeddedInsert(object, level) == ObjectSet(object, level.id, level)

\* the level loop of the constructor from index i (from 0) on: the Level
\* object of record i has the identity i + 1
RECURSIVE LoadEmbedded(_, _, _)
LoadEmbedded(raws, i, object) ==
    IF i >= Len(raws) THEN object
    ELSE LoadEmbedded(raws, i + 1,
            EmbeddedInsert(object, NewLevel(raws[i + 1], i + 1)))

\* world.findTilesetByUid(uid) from index i (from 0) on
RECURSIVE FindTilesetFrom(_, _, _)
FindTilesetFrom(list, uid, i) ==
    IF i >= Len(list) THEN NoTileset
    ELSE IF list[i + 1].uid = uid THEN list[i + 1]
    ELSE FindTilesetFrom(list, uid, i + 1)

\* world.tilesetMap[uid]: the number is turned into a property key
TilesetMapGet(map, uid) ==
    IF ToString(uid) \in DOMAIN map THEN map[ToString(uid)] ELSE NoTileset

\* new Enum(world, raw): unnamed/part_002 resolves the icon tileset here,
\* src/index.ts leaves it to the getter
NewEnum(src, raw, list) ==
    [id |-> raw.identifier, uid |-> raw.uid, iconTilesetUid |-> raw.iconTilesetUid,
     tileset |-> IF src = "unnamed/part_002" /\ raw.iconTilesetUid # Null
                 THEN FindTilesetFrom(list, raw.iconTilesetUid, 0)
                 ELSE NoTileset]

\* the enum loop of the constructor from index i (from 0) on
RECURSIVE LoadEnums(_, _, _, _, _)
LoadEnums(src, raws, i, object, list) ==
    IF i >= Len(raws) THEN object
    ELSE LoadEnums(src, raws, i + 1,
            ObjectSet(object, raws[i + 1].identifier, NewEnum(src, raws[i + 1], list)),
            list)

\* the World right after fromJSON of a project with embedded levels
InitConstruct ==
    /\ source \in Sources
    /\ isBrowser \in BOOLEAN
    /\ \E rawLevels \in EmbeddedLevels, defs \in {NoDefs, SomeDefs} :
          /\ data = [externalLevels |-> FALSE, levels |-> rawLevels, defs |-> defs]
          /\ LET ts == LoadTilesets(defs.tilesets, 0, EmptyObject)
                 ls == LoadEmbedded(rawLevels, 0, EmptyObject)
             IN  /\ tilesetMap = ts.map
                 /\ tilesets = ObjectValues(ts)
                 /\ levelMap = ls.map
                 /\ levelIds = ls.keys
                 /\ levels = ObjectValues(ls)
                 /\ enumMap = LoadEnums(source, defs.enums, 0, EmptyObject,
                                        ObjectValues(ts)).map
          /\ neighbours_ = [obj \in 1..Len(rawLevels) |-> InitialNeighbours_(source, obj)]
    /\ calls = << >>
    /\ fetches = << >>
    /\ accesses = << >>
    /\ made = << >>

(* ------------------------------ parseField ----------------------------- *)

\* the characters \w of a regular expression matches
WordChars ==
    {"A", "B", "C", "D", "E", "F", "G", "H", "I", "J", "K", "L", "M",
     "N", "O", "P", "Q", "R", "S", "T", "U", "V", "W", "X", "Y", "Z",
     "a", "b", "c", "d", "e", "f", "g", "h", "i", "j", "k", "l", "m",
     "n", "o", "p", "q", "r", "s", "t", "u", "v", "w", "x", "y", "z",
     "0", "1", "2", "3", "4", "5", "6", "7", "8", "9", "_"}

\* s.slice(from, to), with the indices of the code (from 0)
Slice(s, from, to) == SubSeq(s, from + 1, to)

\* s.startsWith(prefix, pos)
StartsWith(s, prefix, pos) ==
    /\ pos + Len(prefix) <= Len(s)
    /\ Slice(s, pos, pos + Len(prefix)) = prefix

\* the length of the longest run of characters of the set at pos
RECURSIVE Run(_, _, _)
Run(s, pos, chars) ==
    IF pos < Len(s) /\ Slice(s, pos, pos + 1) \in chars
    THEN 1 + Run(s, pos + 1, chars)
    ELSE 0

\* the result of a failed match
NoMatch == [ok |-> FALSE, set1 |-> FALSE, g1 |-> "", g2 |-> "", last |-> 0]

\* (\w+)>* at pos: the longest word, then every > after it; g1 is what
\* the first group captured before (set1: it captured at all)
MatchWord(s, pos, set1, g1) ==
    LET Word(m) ==
            IF m = 0 THEN NoMatch
            ELSE [ok |-> TRUE, set1 |-> set1, g1 |-> g1,
                  g2 |-> Slice(s, pos, pos + m),
                  last |-> pos + m + Run(s, pos + m, {">"})]
    IN  Word(Run(s, pos, WordChars))

\* \.*(\w+)>* at pos: every dot first; giving a dot back leaves a dot
\* where the word has to start, which fails as well
MatchDots(s, pos, set1, g1) == MatchWord(s, pos + Run(s, pos, {"."}), set1, g1)

\* (?:(\w+)Enum)*\.*(\w+)>* at pos: the repetition is greedy and so is
\* its \w+, which tries its longest length L first and gives back one
\* character at a time; with no length left the repetition ends
RECURSIVE MatchEnums(_, _, _, _)
RECURSIVE MatchEnumOfLength(_, _, _, _, _)
MatchEnumOfLength(s, pos, L, set1, g1) ==
    IF L = 0 THEN MatchDots(s, pos, set1, g1)
    ELSE IF StartsWith(s, "Enum", pos + L)
         THEN LET OrShorter(r) ==
                      IF r.ok THEN r ELSE MatchEnumOfLength(s, pos, L - 1, set1, g1)
              IN  OrShorter(MatchEnums(s, pos + L + 4, TRUE, Slice(s, pos, pos + L)))
         ELSE MatchEnumOfLength(s, pos, L - 1, set1, g1)
MatchEnums(s, pos, set1, g1) ==
    MatchEnumOfLength(s, pos, Run(s, pos, WordChars), set1, g1)

\* the whole expression at pos: (?:Array<)* is greedy
RECURSIVE MatchArrays(_, _)
MatchArrays(s, pos) ==
    IF StartsWith(s, "Array<", pos)
    THEN LET OrNoArray(r) == IF r.ok THEN r ELSE MatchEnums(s, pos, FALSE, "")
         IN  OrNoArray(MatchArrays(s, pos + 6))
    ELSE MatchEnums(s, pos, FALSE, "")

\* FieldTypeRegex.exec(s): the expression is not anchored, so the match
\* may start at any index, the leftmost that matches
RECURSIVE ExecFrom(_, _)
ExecFrom(s, start) ==
    IF start > Len(s) THEN NoMatch
    ELSE LET OrLater(r) == IF r.ok THEN r ELSE ExecFrom(s, start + 1)
         IN  OrLater(MatchArrays(s, start))
FieldTypeRegexExec(s) == ExecFrom(s, 0)

\* the 16 values of FieldType
FieldType ==
    {"Int", "IntArray", "Float", "FloatArray", "String", "StringArray",
     "Bool", "BoolArray", "Color", "ColorArray", "Point", "PointArray",
     "FilePath", "FilePathArray", "Enum", "EnumArray"}

\* the scalar type names of a field's __type
ScalarTypeNames == {"Int", "Float", "String", "Bool", "Color", "Point", "FilePath"}

\* the __type strings of the format, each with what it says: the inner
\* type name, whether it refers to an enum and whether it is an array
TypeTable ==
    LET scalars == {[text |-> n, inner |-> n, isEnum |-> FALSE] : n \in ScalarTypeNames}
        locals == {[text |-> "LocalEnum." \o SomeDefs.enums[i].identifier,
                    inner |-> SomeDefs.enums[i].identifier, isEnum |-> TRUE] :
                   i \in 1..Len(SomeDefs.enums)}
        externals == {[text |-> "ExternalEnum." \o SomeDefs.externalEnums[i].identifier,
                       inner |-> SomeDefs.externalEnums[i].identifier, isEnum |-> TRUE] :
                      i \in 1..Len(SomeDefs.externalEnums)}
        plain == scalars \cup locals \cup externals
    IN  {[text |-> t.text, inner |-> t.inner, isEnum |-> t.isEnum, isArray |-> FALSE] :
            t \in plain}
        \cup
        {[text |-> "Array<" \o t.text \o ">", inner |-> t.inner, isEnum |-> t.isEnum,
          isArray |-> TRUE] : t \in plain}

\* the __type strings of the format
GrammarTypes == {t.text : t \in TypeTable}

\* __type strings that are not of the format
OtherTypes ==
    {"", "<?>", "Banana", "Array<Int", "Int>", "LocalEnum.", "Array<>", "Enum(Color)"}

\* undefined, read where a number is expected
Undefined == -2

\* raw values of the JSON tree: null, a number, an object {cx, cy}, an array
NullValue == [kind |-> "null"]
Scalar(v) == [kind |-> "scalar", v |-> v]
GridPoint(cx, cy) == [kind |-> "object", cx |-> cx, cy |-> cy]
RawArray(items) == [kind |-> "array", items |-> items]

\* the { x, y } object parseField builds
XY(x, y) == [kind |-> "xy", x |-> x, y |-> y]

\* value[i] (i from 0) and value.cx, value.cy of a raw value that is not null
Index(value, i) ==
    IF value.kind = "array" /\ i < Len(value.items) /\ value.items[i + 1].kind = "scalar"
    THEN value.items[i + 1].v ELSE Undefined
Cx(value) == IF value.kind = "object" THEN value.cx ELSE Undefined
Cy(value) == IF value.kind = "object" THEN value.cy ELSE Undefined

\* the values a field of the __type carries in the model
RawValuesOf(type) ==
    IF type = "Point"
    THEN {NullValue, GridPoint(1, 2), RawArray(<<Scalar(3), Scalar(7)>>)}
    ELSE IF type = "Array<Point>"
    THEN {RawArray(<< >>),
          RawArray(<<GridPoint(1, 2), GridPoint(3, 4)>>),
          RawArray(<<RawArray(<<Scalar(3), Scalar(7)>>), RawArray(<<Scalar(5), Scalar(8)>>)>>)}
    ELSE IF StartsWith(type, "Array", 0) THEN {RawArray(<<Scalar(7)>>)}
    ELSE {Scalar(7)}

\* the raw field instances
RawFields ==
    UNION {{[__identifier |-> "speed", __type |-> t, __value |-> v] :
              v \in RawValuesOf(t)} : t \in GrammarTypes \cup OtherTypes}

\* undefined, read where an Enum is expected
NoEnum == [id |-> "", uid |-> Null, iconTilesetUid |-> Null, tileset |-> NoTileset]

\* no Field
NoField == [id |-> "", type |-> "", value |-> NullValue, hasRef |-> FALSE, ref |-> NoEnum]

\* no Field: the fields of an object that has none
NoFields == << >>

\* world.enumMap[typeName]
EnumMapGet(map, typeName) == IF typeName \in DOMAIN map THEN map[typeName] ELSE NoEnum

\* the discriminant of a field: the captured type name, widened to Enum,
\* with the suffix of an array
\* (mutant: the suffix is appended before the widening, which drops it)
DiscriminantSuffixFirst(typeName, isEnum, isArray) ==
    IF isEnum THEN "Enum"
    ELSE IF isArray THEN typeName \o "Array" ELSE typeName
Discriminant(typeName, isEnum, isArray) ==
    LET type == IF isEnum THEN "Enum" ELSE typeName
    IN  IF isArray THEN type \o "Array" ELSE type

\* the value of the field: a Point becomes { x, y }, read from value[0] and
\* value[1] in src/index.ts and from value.cx and value.cy in
\* unnamed/part_002; a PointArray is mapped, and src/index.ts drops the
\* mapped array; mapping what is no array, or an array holding null, throws
NormalizeValue(src, type, value) ==
    LET point(v) == IF src = "src/index.ts" THEN XY(Index(v, 0), Index(v, 1))
                    ELSE XY(Cx(v), Cy(v))
    IN  IF type = "Point" /\ value # NullValue
        THEN [raised |-> "none", value |-> point(value)]
        ELSE IF type = "PointArray"
        THEN IF value.kind # "array" \/ \E i \in 1..Len(value.items) : value.items[i] = NullValue
             THEN [raised |-> "TypeError", value |-> NullValue]
             ELSE IF src = "src/index.ts" THEN [raised |-> "none", value |-> value]
             ELSE [raised |-> "none",
                   value |-> RawArray([i \in 1..Len(value.items) |-> point(value.items[i])])]
        ELSE [raised |-> "none", value |-> value]

\* parseField(field, world, entityId)
ParseField(src, field, entityId) ==
    LET isArray == StartsWith(field.__type, "Array", 0)
        Parsed(isEnum, typeName, type, v) ==
            IF v.raised # "none"
            THEN [raised |-> v.raised, errField |-> "", errEntity |-> "", field |-> NoField]
            ELSE [raised |-> "none", errField |-> "", errEntity |-> "",
                  field |-> [id |-> field.__identifier, type |-> type, value |-> v.value,
                             hasRef |-> isEnum,
                             ref |-> IF isEnum THEN EnumMapGet(enumMap, typeName)
                                     ELSE NoEnum]]
        Typed(isEnum, typeName, type) ==
            Parsed(isEnum, typeName, type, NormalizeValue(src, type, field.__value))
        Matched(result) ==
            IF ~result.ok
            THEN [raised |-> "Error", errField |-> field.__identifier,
                  errEntity |-> entityId, field |-> NoField]
            ELSE Typed(result.set1, result.g2,
                       Discriminant(result.g2, result.set1, isArray))
    IN  Matched(FieldTypeRegexExec(field.__type))

\* the field loop of the Entity constructor from index i (from 0) on: an
\* error of parseField ends the construction
RECURSIVE ParseFields(_, _, _, _, _)
ParseFields(src, instances, i, entityId, fields) ==
    IF i >= Len(instances)
    THEN [raised |-> "none", errField |-> "", errEntity |-> "", fields |-> fields]
    ELSE LET Stored(r) ==
                 IF r.raised # "none"
                 THEN [raised |-> r.raised, errField |-> r.errField,
                       errEntity |-> r.errEntity, fields |-> NoFields]
                 ELSE ParseFields(src, instances, i + 1, entityId,
                                  LevelMapSet(fields, r.field.id, r.field))
         IN  Stored(ParseField(src, instances[i + 1], entityId))

\* the definition loop of the Entity constructor from index i (from 0) on
RECURSIVE EntityTilesetFrom(_, _, _, _)
EntityTilesetFrom(entities, i, defUid, tileset_) ==
    IF i >= Len(entities) THEN tileset_
    ELSE IF entities[i + 1].uid = defUid /\ entities[i + 1].tilesetId # Null
    THEN EntityTilesetFrom(entities, i + 1, defUid,
                           TilesetMapGet(tilesetMap, entities[i + 1].tilesetId))
    ELSE EntityTilesetFrom(entities, i + 1, defUid, tileset_)

\* the object a construction or a getter yielded last, with the raw record
\* it was given, or the Error it threw
NewMade(kind, raw, tileset, fields, raised, errField, errEntity) ==
    [kind |-> kind, data |-> raw, tileset |-> tileset, fields |-> fields,
     raised |-> raised, errField |-> errField, errEntity |-> errEntity]

\* the raw layer instances: a layer with either tileset, and one without
RawLayers ==
    {[__identifier |-> "Ground", __tilesetDefUid |-> uid] : uid \in {1, 2, Null}}

\* Layer.tileset
LayerTilesetOf(raw) ==
    IF raw.__tilesetDefUid = Null THEN NoTileset
    ELSE TilesetMapGet(tilesetMap, raw.__tilesetDefUid)

\* reading layer.tileset of a Layer of the World
LayerTileset(raw) ==
    /\ made' = <<NewMade("Layer", raw, LayerTilesetOf(raw), NoFields, "none", "", "")>>
    /\ UNCHANGED <<data, levelMap, levelIds, levels, calls, fetches, source, isBrowser,
                   neighbours_, accesses, tilesetMap, tilesets, enumMap>>

\* Enum.tileset: a getter in src/index.ts, a field in unnamed/part_002
EnumTilesetOf(src, enum) ==
    IF src = "src/index.ts"
    THEN IF enum.iconTilesetUid = Null THEN NoTileset
         ELSE TilesetMapGet(tilesetMap, enum.iconTilesetUid)
    ELSE enum.tileset

\* reading enum.tileset of an Enum of the World
EnumTileset(name) ==
    /\ made' = <<NewMade("Enum", enumMap[name], EnumTilesetOf(source, enumMap[name]),
                         NoFields, "none", "", "")>>
    /\ UNCHANGED <<data, levelMap, levelIds, levels, calls, fetches, source, isBrowser,
                   neighbours_, accesses, tilesetMap, tilesets, enumMap>>

\* the raw entity instances: without fields, of either definition or of
\* none, and with one field
RawEntities ==
    {[__identifier |-> "Player", defUid |-> d, fieldInstances |-> << >>] : d \in {6, 7, 8}}
    \cup {[__identifier |-> "Player", defUid |-> 6, fieldInstances |-> <<f>>] :
             f \in RawFields}

\* the Entity constructor: the Entity, or the error of parseField
EntityOf(raw) ==
    LET tileset_ == IF data.defs.absent THEN NoTileset
                    ELSE EntityTilesetFrom(data.defs.entities, 0, raw.defUid, NoTileset)
        WithFields(r) ==
            IF r.raised # "none"
            THEN NewMade("Entity", raw, NoTileset, NoFields, r.raised, r.errField, r.errEntity)
            ELSE NewMade("Entity", raw, tileset_, r.fields, "none", "", "")
    IN  WithFields(ParseFields(source, raw.fieldInstances, 0, raw.__identifier, NoFields))

\* new Entity(world, raw, pxOffset)
NewEntity(raw) ==
    /\ made' = <<EntityOf(raw)>>
    /\ UNCHANGED <<data, levelMap, levelIds, levels, calls, fetches, source, isBrowser,
                   neighbours_, accesses, tilesetMap, tilesets, enumMap>>

(* ------------------------------- new Layer ----------------------------- *)

\* null in a slot for an array, and the array of the items
NullArray == [isNull |-> TRUE, items |-> << >>]
JsArray(items) == [isNull |-> FALSE, items |-> items]

\* the four values of LayerType
LayerType == {"AutoLayer", "Entities", "IntGrid", "Tiles"}

\* case AutoLayer of the constructor: the raw tiles are kept as they are
\* (mutant: the tiles are kept whatever the type)
AutoLayerTilesAlways(raw) == JsArray(raw.autoLayerTiles)
AutoLayerTilesOf(raw) ==
    IF raw.__type = "AutoLayer" THEN JsArray(raw.autoLayerTiles) ELSE NullArray

\* case Tiles of the constructor
GridTilesOf(raw) ==
    IF raw.__type = "Tiles" THEN JsArray(raw.gridTiles) ELSE NullArray

\* case Entities of the constructor from index i (from 0) on: an error of
\* an Entity constructor ends the construction
RECURSIVE EntitiesFrom(_, _, _)
EntitiesFrom(instances, i, entities) ==
    IF i >= Len(instances)
    THEN [raised |-> "none", errField |-> "", errEntity |-> "", entities |-> JsArray(entities)]
    ELSE LET Pushed(e) ==
                 IF e.raised # "none"
                 THEN [raised |-> e.raised, errField |-> e.errField,
                       errEntity |-> e.errEntity, entities |-> NullArray]
                 ELSE EntitiesFrom(instances, i + 1, Append(entities, e))
         IN  Pushed(EntityOf(instances[i + 1]))
EntitiesOf(raw) ==
    IF raw.__type = "Entities" THEN EntitiesFrom(raw.entityInstances, 0, << >>)
    ELSE [raised |-> "none", errField |-> "", errEntity |-> "", entities |-> NullArray]

\* the cell of a coordId in a grid of the width: y first, then x
\* (mutant: the coordId is taken to count down the columns)
CellOfColumnFirst(coordId, width) ==
    [x |-> coordId \div width, y |-> coordId - (coordId \div width) * width]
CellOf(coordId, width) ==
    [x |-> coordId - (coordId \div width) * width, y |-> coordId \div width]

\* intGrid_[x], null when the slot is empty or past the length
ColumnAt(grid, x) == IF x < Len(grid) THEN grid[x + 1] ELSE NullArray

\* the loop over data.intGrid from index i (from 0) on: a column is made,
\* of height empty cells, when the first value is written into it
RECURSIVE UnpackFrom(_, _, _, _, _)
UnpackFrom(entries, i, width, height, grid) ==
    IF i >= Len(entries) THEN grid
    ELSE LET Column(old) == IF old.isNull THEN [k \in 1..height |-> Undefined]
                             ELSE old.items
             Written(cell) ==
                 UnpackFrom(entries, i + 1, width, height,
                     ArraySet(grid, cell.x,
                              JsArray(ArraySet(Column(ColumnAt(grid, cell.x)), cell.y,
                                               entries[i + 1].v, Undefined)),
                              NullArray))
         IN  Written(CellOf(entries[i + 1].coordId, width))

\* the definition loop of case IntGrid from index i (from 0) on
RECURSIVE IntGridValuesFrom(_, _, _, _)
IntGridValuesFrom(layers, i, uid, values) ==
    IF i >= Len(layers) THEN values
    ELSE IF layers[i + 1].uid = uid
    THEN IntGridValuesFrom(layers, i + 1, uid,
            [idx \in 1..Len(layers[i + 1].intGridValues) |->
                [color |-> layers[i + 1].intGridValues[idx].color,
                 id |-> layers[i + 1].intGridValues[idx].identifier]]
            \o SubSeq(values, Len(layers[i + 1].intGridValues) + 1, Len(values)))
    ELSE IntGridValuesFrom(layers, i + 1, uid, values)

\* case IntGrid of the constructor: worldData.defs!.layers throws when the
\* project has no definitions
IntGridOf(raw) ==
    IF raw.__type # "IntGrid"
    THEN [raised |-> "none", intGrid |-> NullArray, intGridValues |-> << >>]
    ELSE IF data.defs.absent
    THEN [raised |-> "TypeError", intGrid |-> NullArray, intGridValues |-> << >>]
    ELSE [raised |-> "none",
          intGrid |-> JsArray(UnpackFrom(raw.intGrid, 0, raw.__cWid, raw.__cHei,
                                         [x \in 1..raw.__cWid |-> NullArray])),
          intGridValues |-> IntGridValuesFrom(data.defs.layers, 0, raw.layerDefUid, << >>)]

\* the Layer constructor: the switch has no default, a type that is none
\* of the four leaves every payload null
LayerOf(raw) ==
    LET Built(e, g, raised) ==
            [kind |-> "NewLayer", data |-> raw, raised |-> raised,
             errField |-> e.errField, errEntity |-> e.errEntity,
             type |-> raw.__type,
             autoLayerTiles |-> IF raised = "none" THEN AutoLayerTilesOf(raw) ELSE NullArray,
             entities |-> e.entities,
             gridTiles |-> IF raised = "none" THEN GridTilesOf(raw) ELSE NullArray,
             intGrid |-> g.intGrid,
             intGridValues |-> g.intGridValues]
        Switched(e, g) == Built(e, g, IF e.raised # "none" THEN e.raised ELSE g.raised)
    IN  Switched(EntitiesOf(raw), IntGridOf(raw))

\* the sparse entries of an IntGrid layer of the size: at most two, of
\* different cells, the first with the value 1 and the second with 2
IntGridEntries(width, height) ==
    {[i \in 1..Len(q) |-> [coordId |-> q[i], v |-> i]] :
        q \in {c \in SeqsUpTo(0..(width * height - 1), 2) :
                 \A i, j \in 1..Len(c) : i # j => c[i] # c[j]}}

\* a raw layer instance; the arrays of the payloads a layer does not use
\* are in the record as well
RawLayer(type, width, height, autoLayerTiles, entityInstances, gridTiles, intGrid) ==
    [__identifier |-> "Ground", __type |-> type, __tilesetDefUid |-> Null,
     __cWid |-> width, __cHei |-> height, layerDefUid |-> 10,
     autoLayerTiles |-> autoLayerTiles, entityInstances |-> entityInstances,
     gridTiles |-> gridTiles, intGrid |-> intGrid]

\* a raw tile
SomeTile == [t |-> 5, px |-> <<0, 16>>]

\* raw entity instances of a layer: none, one, and one after which comes
\* one whose field has a __type without a word character
LayerEntities ==
    LET good == [__identifier |-> "Player", defUid |-> 6, fieldInstances |-> << >>]
        bad == [__identifier |-> "Item", defUid |-> 7,
                fieldInstances |-> <<[__identifier |-> "speed", __type |-> "<?>",
                                      __value |-> NullValue]>>]
    IN  {<< >>, <<good>>, <<good, bad>>}

\* the raw layer instances: of the four types, and of types that are none
\* of them
RawLayerInstances ==
    {RawLayer(type, 2, 2, tiles, << >>, << >>, << >>) :
        type \in {"AutoLayer", "Decoration", ""}, tiles \in {<< >>, <<SomeTile>>}}
    \cup {RawLayer("Tiles", 2, 2, << >>, << >>, tiles, << >>) :
             tiles \in {<< >>, <<SomeTile>>}}
    \cup {RawLayer("Entities", 2, 2, << >>, instances, << >>, << >>) :
             instances \in LayerEntities}
    \cup {RawLayer("IntGrid", 3, 2, <<SomeTile>>, << >>, << >>, entries) :
             entries \in IntGridEntries(3, 2)}
    \cup {RawLayer("IntGrid", 1, 2, << >>, << >>, << >>, entries) :
             entries \in IntGridEntries(1, 2)}

\* new Layer(world, raw)
NewLayer(raw) ==
    /\ made' = <<LayerOf(raw)>>
    /\ UNCHANGED <<data, levelMap, levelIds, levels, calls, fetches, source, isBrowser,
                   neighbours_, accesses, tilesetMap, tilesets, enumMap>>

(* ---------------- World.fromJSON of a project with layers -------------- *)

\* the layer loop of the Level constructor from index i (from 0) on: an
\* error of a Layer constructor ends the construction
RECURSIVE LayersFrom(_, _, _)
LayersFrom(instances, i, layers) ==
    IF i >= Len(instances)
    THEN [raised |-> "none", errField |-> "", errEntity |-> "", layers |-> layers]
    ELSE LET PushedLayer(l) ==
                 IF l.raised # "none"
                 THEN [raised |-> l.raised, errField |-> l.errField,
                       errEntity |-> l.errEntity, layers |-> << >>]
                 ELSE LayersFrom(instances, i + 1, Append(layers, l))
         IN  PushedLayer(LayerOf(instances[i + 1]))

\* the Level constructor: layers stays [] when the raw level has no
\* layerInstances
LevelLayersOf(raw) ==
    IF raw.layerInstances.isNull
    THEN [raised |-> "none", errField |-> "", errEntity |-> "", layers |-> << >>]
    ELSE LayersFrom(raw.layerInstances.items, 0, << >>)

\* the project of this World's definitions with one embedded level of the
\* layer instances
ProjectWith(layerInstances) ==
    [externalLevels |-> FALSE, defs |-> data.defs,
     levels |-> <<[identifier |-> "Level1", uid |-> 1, __neighbours |-> << >>,
                   layerInstances |-> layerInstances]>>]

\* the layer instances of a raw level: none, or one layer
LayerInstanceLists == {NullArray} \cup {JsArray(<<l>>) : l \in RawLayerInstances}

\* World.fromJSON(project): the tables of the definitions, then every
\* level with its layers; the project has the definitions of this World,
\* so the tables its layers and entities read are this World's tables
FromJSON(layerInstances) ==
    LET WorldOf(project, ts, es, l) ==
            [kind |-> "World", data |-> project, raised |-> l.raised,
             errField |-> l.errField, errEntity |-> l.errEntity,
             tilesetIds |-> IF l.raised = "none" THEN ts.keys ELSE << >>,
             enumIds |-> IF l.raised = "none" THEN es.keys ELSE << >>,
             levelIds |-> IF l.raised = "none" THEN <<"Level1">> ELSE << >>,
             layers |-> l.layers]
        WithTilesets(project, ts) ==
            WorldOf(project, ts,
                    LoadEnums(source, project.defs.enums, 0, EmptyObject, ObjectValues(ts)),
                    LevelLayersOf(project.levels[1]))
        Loaded(project) ==
            WithTilesets(project, LoadTilesets(project.defs.tilesets, 0, EmptyObject))
    IN  /\ made' = <<Loaded(ProjectWith(layerInstances))>>
        /\ UNCHANGED <<data, levelMap, levelIds, levels, calls, fetches, source, isBrowser,
                       neighbours_, accesses, tilesetMap, tilesets, enumMap>>

\* the levels of an embedded World are there from the start; their
\* neighbours are read
NextConstruct ==
    \/ \E i \in 1..Len(levels) : GetNeighbours(i)

SpecConstruct == InitConstruct /\ [][NextConstruct]_vars

\* the objects of a World: the World of a project without levels,
\* and the constructions and reads that the levels do not enter
InitObjects ==
    /\ InitConstruct
    /\ data.levels = << >>

NextObjects ==
    \/ \E raw \in RawEntities : NewEntity(raw)
    \/ \E raw \in RawLayerInstances : NewLayer(raw)
    \/ \E raw \in RawLayers : LayerTileset(raw)
    \/ \E name \in DOMAIN enumMap : EnumTileset(name)
    \/ \E layerInstances \in LayerInstanceLists : FromJSON(layerInstances)

SpecObjects == InitObjects /\ [][NextObjects]_vars

(* ======================= properties of the claims ====================== *)

\* the identifiers of the raw level records
StubIdentifiers == {data.levels[i].identifier : i \in 1..Len(data.levels)}

\* the identifier of the raw record a fetch was issued for
StubOf(f) == data.levels[fetches[f].index + 1].identifier

\* the step is a call of the method kind with the argument arg
IsCall(kind, arg) ==
    /\ Len(calls') = Len(calls) + 1
    /\ calls'[Len(calls')].kind = kind
    /\ calls'[Len(calls')].arg = arg

\* the array positions of levels that hold a Level with the identifier
SlotsOf(lvls, identifier) ==
    {i \in 1..Len(lvls) : lvls[i] # NoLevel /\ lvls[i].id = identifier}

\* C1: a loadLevel(X) made after an earlier loadLevel(X) of a stub
\* identifier X has completed successfully issues no fetch, and levels still
\* holds exactly one Level with id X
C1_SecondLoadIsNoOp ==
    [][\A X \in StubIdentifiers :
         (/\ IsCall("loadLevel", X)
          /\ \E c \in 1..Len(calls) :
                /\ calls[c].kind = "loadLevel"
                /\ calls[c].arg = X
                /\ calls[c].state = "resolved")
         => /\ fetches' = fetches
            /\ Cardinality(SlotsOf(levels', X)) = 1]_vars

\* C1 witness: loadLevel(X) has fetched X and returned, and a later
\* loadLevel(X) has returned without a fetch
C1_Witness ==
    \E c1 \in 1..Len(calls), c2 \in 1..Len(calls) :
        /\ c1 < c2
        /\ calls[c1].kind = "loadLevel" /\ calls[c2].kind = "loadLevel"
        /\ calls[c1].arg = calls[c2].arg
        /\ calls[c1].arg \in StubIdentifiers
        /\ calls[c1].state = "resolved" /\ calls[c2].state = "resolved"
        /\ FetchesOf(c1) # {}
        /\ FetchesOf(c2) = {}

\* C2 (as claimed): for every level identifier at most one fetch is in
\* flight at any time
C2_OneFetchInFlight ==
    \A X \in StubIdentifiers :
        Cardinality({f \in 1..Len(fetches) :
                        fetches[f].state = "inflight" /\ StubOf(f) = X}) <= 1

\* C3 (as claimed): while only loadLevel calls have been made and none has
\* failed, levels.length is the number of loaded levels and levels has no
\* empty slot
C3_LengthIsLoadedCount ==
    (/\ \A c \in 1..Len(calls) :
           calls[c].kind = "loadLevel" /\ calls[c].state # "rejected"
     /\ \A f \in 1..Len(fetches) : fetches[f].state # "failed")
    => /\ Len(levels) = Cardinality(DOMAIN levelMap)
       /\ \A i \in 1..Len(levels) : levels[i] # NoLevel

\* C4: once a loadLevels() call has completed successfully on a World with
\* N stubs, levels.length = N and every stub identifier is a key of levelMap
C4_LoadLevelsLoadsAll ==
    \A c \in 1..Len(calls) :
        (calls[c].kind = "loadLevels" /\ calls[c].state = "resolved")
        => /\ Len(levels) = Len(data.levels)
           /\ \A X \in StubIdentifiers : X \in DOMAIN levelMap

\* C4 witness: with two stubs, one loaded by an earlier loadLevel, a
\* loadLevels() has fetched the other one and completed successfully
C4_Witness ==
    \E c0 \in 1..Len(calls), c \in 1..Len(calls) :
        /\ c0 < c
        /\ Len(data.levels) = 2
        /\ calls[c0].kind = "loadLevel" /\ calls[c0].state = "resolved"
        /\ FetchesOf(c0) # {}
        /\ calls[c].kind = "loadLevels" /\ calls[c].state = "resolved"
        /\ Cardinality(FetchesOf(c)) = 1

\* every stub identifier is a key of levelMap
AllLoaded == \A X \in StubIdentifiers : X \in DOMAIN levelMap

\* C5: once every external level is loaded, levels[i].id is the identifier
\* of the i-th raw level record, for every i
C5_OrderIsRawOrder ==
    AllLoaded
    => /\ Len(levels) = Len(data.levels)
       /\ \A i \in 1..Len(data.levels) : levels[i].id = data.levels[i].identifier

\* C5 witness: the second raw record was loaded first (by loadLevel), the
\* first one afterwards (by a loadLevels that had only it left to fetch)
C5_Witness ==
    /\ Len(data.levels) = 2
    /\ AllLoaded
    /\ \E c0 \in 1..Len(calls), c \in 1..Len(calls) :
        /\ c0 < c
        /\ calls[c0].kind = "loadLevel" /\ calls[c0].state = "resolved"
        /\ \E f \in FetchesOf(c0) : fetches[f].index = 1
        /\ calls[c].kind = "loadLevels" /\ calls[c].state = "resolved"
        /\ \A f \in FetchesOf(c) : fetches[f].index = 0
        /\ FetchesOf(c) # {}

\* C6 (as claimed): once levelMap holds a Level object under an identifier,
\* every later state holds the same object under that identifier
C6_LoadedLevelIsStable ==
    [][\A k \in DOMAIN levelMap :
         k \in DOMAIN levelMap' /\ levelMap'[k] = levelMap[k]]_vars

\* C7 (as claimed): a loadLevel of an identifier that no raw record carries
\* fails with the level-not-found error, issues no fetch and leaves
\* levelMap, levelIds and levels unchanged
C7_AbsentIdentifierFails ==
    [][\A X \in CallerIdentifiers(Len(data.levels)) \ StubIdentifiers :
         IsCall("loadLevel", X)
         => /\ calls'[Len(calls')].state = "rejected"
            /\ calls'[Len(calls')].err = "LevelNotFound"
            /\ fetches' = fetches
            /\ UNCHANGED <<levelMap, levelIds, levels>>]_vars

\* some fetch of the raw record of fetch f has succeeded
SomeFetchSucceeded(f) ==
    \E g \in 1..Len(fetches) :
        fetches[g].index = fetches[f].index /\ fetches[g].state = "ok"

\* the Level objects the World holds
HeldObjects ==
    {levelMap[k].obj : k \in DOMAIN levelMap}
        \cup {levels[i].obj : i \in 1..Len(levels)}

C9_SettlesAfterAllFetches ==
    \A c \in 1..Len(calls) :
        (calls[c].kind = "loadLevels" /\ calls[c].state # "pending")
        => \A f \in FetchesOf(c) : fetches[f].state # "inflight"

\* C10 (as claimed): unloadLevel(X) removes X from levelMap, levelIds and
\* levels when X is loaded, and changes nothing when X is not loaded
C10_UnloadRemoves ==
    [][\A X \in CallerIdentifiers(Len(data.levels)) :
         IsCall("unloadLevel", X)
         => /\ X \notin DOMAIN levelMap'
            /\ \A i \in 1..Len(levelIds') : levelIds'[i] # X
            /\ SlotsOf(levels', X) = {}
            /\ X \notin DOMAIN levelMap => UNCHANGED <<levelMap, levelIds, levels>>]_vars

\* the step is a read of level.neighbours
IsAccess == Len(accesses') = Len(accesses) + 1

\* the outcome of the read the step makes
LastAccess == accesses'[Len(accesses')]

\* the raw neighbour entries of the Level object obj
RawNeighbours(obj) == LevelData([obj |-> obj]).__neighbours

\* a Level with the uid is in world.levels
Present(uid) ==
    \E i \in 1..Len(levels) : levels[i] # NoLevel /\ levels[i].uid = uid

\* only loadLevel calls have been made and none of them has failed
OnlySuccessfulLoadLevel ==
    /\ \A c \in 1..Len(calls) :
          calls[c].kind = "loadLevel" /\ calls[c].state # "rejected"
    /\ \A f \in 1..Len(fetches) : fetches[f].state # "failed"

\* C11 (as claimed): in external-levels mode, after successful loadLevel
\* calls, findLevelByUid(uid) does not raise; it returns the loaded Level
\* with the uid when there is one and undefined otherwise
C11_FindLevelByUidTotal ==
    (data.externalLevels /\ OnlySuccessfulLoadLevel)
    => \A uid \in 0..(Len(data.levels) + 1) :
          LET r == FindLevelByUid(levels, uid)
          IN  /\ ~r.raised
              /\ IF Present(uid)
                 THEN r.found # NoLevel /\ r.found.uid = uid
                 ELSE r.found = NoLevel

\* C12 (as claimed): a read of level.neighbours of a Level whose raw
\* neighbour entries all refer to levels in the World returns one entry per
\* raw entry, in the same order, with the raw entry's dir and a level of the
\* raw entry's levelUid
C12_NeighboursMatchRaw ==
    [][(/\ IsAccess
        /\ \A j \in 1..Len(RawNeighbours(LastAccess.obj)) :
              Present(RawNeighbours(LastAccess.obj)[j].levelUid))
       => LET raw == RawNeighbours(LastAccess.obj)
          IN  /\ LastAccess.raised = "none"
              /\ Len(LastAccess.items) = Len(raw)
              /\ \A j \in 1..Len(raw) :
                    /\ LastAccess.items[j].dir = raw[j].dir
                    /\ LastAccess.items[j].level.uid = raw[j].levelUid]_vars

\* C13: once a read of level.neighbours has returned, every later read of
\* the same Level returns the identical array and calls findLevelByUid no
\* more
C13_NeighboursMemoized ==
    \A a1 \in 1..Len(accesses), a2 \in 1..Len(accesses) :
        (/\ a1 < a2
         /\ accesses[a1].obj = accesses[a2].obj
         /\ accesses[a1].raised = "none")
        => /\ accesses[a2].raised = "none"
           /\ accesses[a2].list = accesses[a1].list
           /\ accesses[a2].items = accesses[a1].items
           /\ accesses[a2].lookups = 0

\* C13 witness: a first read has resolved a neighbour by findLevelByUid and
\* returned, and a second read of the same Level has returned
C13_Witness ==
    \E a1 \in 1..Len(accesses), a2 \in 1..Len(accesses) :
        /\ a1 < a2
        /\ accesses[a1].obj = accesses[a2].obj
        /\ accesses[a1].raised = "none"
        /\ accesses[a1].lookups > 0
        /\ Len(accesses[a1].items) > 0
        /\ accesses[a2].raised = "none"

\* C14 (as claimed): a read of level.neighbours of a Level of which some
\* raw neighbour entry refers to no Level in the World raises the error that
\* names a missing uid and the identifier of the Level
C14_MissingNeighbourRaises ==
    [][(/\ IsAccess
        /\ \E j \in 1..Len(RawNeighbours(LastAccess.obj)) :
              ~Present(RawNeighbours(LastAccess.obj)[j].levelUid))
       => /\ LastAccess.raised = "NeighbourMissing"
          /\ \E j \in 1..Len(RawNeighbours(LastAccess.obj)) :
                /\ RawNeighbours(LastAccess.obj)[j].levelUid = LastAccess.errUid
                /\ ~Present(LastAccess.errUid)
          /\ LastAccess.errLevel = LevelData([obj |-> LastAccess.obj]).identifier]_vars

\* the array indices (from 1) of the raw level records that are the first
\* with their identifier
FirstOccurrences ==
    {i \in 1..Len(data.levels) :
        \A j \in 1..(i - 1) : data.levels[j].identifier # data.levels[i].identifier}

\* the array index of the last raw level record with the identifier
LastWith(identifier) ==
    CHOOSE i \in 1..Len(data.levels) :
        /\ data.levels[i].identifier = identifier
        /\ \A j \in (i + 1)..Len(data.levels) : data.levels[j].identifier # identifier

\* C15 (as claimed): in embedded mode levels has one Level per raw level
\* record, levels[i].id is the identifier of record i, and under an
\* identifier that two records share the Level of the later record is kept
C15_OneLevelPerRecord ==
    ~data.externalLevels
    => /\ Len(levels) = Len(data.levels)
       /\ \A i \in 1..Len(data.levels) : levels[i].id = data.levels[i].identifier
       /\ \A X \in DOMAIN levelMap : levelMap[X].obj = LastWith(X)

\* C15 (amended): in embedded mode levels has one Level per distinct
\* identifier, in the order of the first records with each identifier, and
\* it is the Level of the last record with that identifier; when no two
\* records share an identifier, levels[i].id is the identifier of record i
C15_OneLevelPerIdentifier ==
    ~data.externalLevels
    => /\ Len(levels) = Cardinality(FirstOccurrences)
       /\ Len(levelIds) = Len(levels)
       /\ \A i \in FirstOccurrences :
             LET k == Cardinality({j \in FirstOccurrences : j <= i})
                 X == data.levels[i].identifier
             IN  /\ levelIds[k] = X
                 /\ levels[k].id = X
                 /\ levels[k].obj = LastWith(X)
                 /\ levelMap[X] = levels[k]
       /\ Cardinality(FirstOccurrences) = Len(data.levels)
             => \A i \in 1..Len(data.levels) : levels[i].id = data.levels[i].identifier

\* C15 witness: an embedded World of three raw records of which the first
\* and the last share an identifier
C15_Witness ==
    /\ ~data.externalLevels
    /\ Len(data.levels) = 3
    /\ data.levels[1].identifier = data.levels[3].identifier
    /\ data.levels[2].identifier # data.levels[1].identifier
    /\ Len(levels) = 2

\* the last object made is of the kind
IsMade(kind) == made # << >> /\ made[1].kind = kind /\ made[1].raised = "none"

\* the tileset definitions of the project with the uid
TilesetDefs(uid) ==
    {i \in 1..Len(data.defs.tilesets) : data.defs.tilesets[i].uid = uid}

\* the entity definitions of the project with the uid
EntityDefs(uid) ==
    {i \in 1..Len(data.defs.entities) : data.defs.entities[i].uid = uid}

\* C16: layer.tileset is the Tileset with the raw tileset uid when that uid
\* is the uid of a tileset definition of the World, and absent when the
\* raw uid is null; entity.tileset is the Tileset with the tileset id of
\* the entity's definition, and absent, without an error, when there is no
\* definition or the definition has no tileset id
C16_TilesetByUid ==
    /\ IsMade("Layer")
       => /\ made[1].data.__tilesetDefUid = Null => made[1].tileset = NoTileset
          /\ \A i \in TilesetDefs(made[1].data.__tilesetDefUid) :
                made[1].tileset.uid = made[1].data.__tilesetDefUid
    /\ (made # << >> /\ made[1].kind = "Entity" /\ made[1].data.fieldInstances = << >>)
       => /\ made[1].raised = "none"
          /\ \A i \in EntityDefs(made[1].data.defUid) :
                IF data.defs.entities[i].tilesetId = Null
                THEN made[1].tileset = NoTileset
                ELSE TilesetDefs(data.defs.entities[i].tilesetId) # {}
                     => made[1].tileset.uid = data.defs.entities[i].tilesetId
          /\ EntityDefs(made[1].data.defUid) = {} => made[1].tileset = NoTileset

\* C17: enum.tileset is absent exactly when the raw iconTilesetUid is
\* absent, and otherwise it is the Tileset with that uid
C17_EnumTilesetByUid ==
    IsMade("Enum")
    => /\ made[1].tileset = NoTileset <=> made[1].data.iconTilesetUid = Null
       /\ made[1].data.iconTilesetUid # Null
             => made[1].tileset.uid = made[1].data.iconTilesetUid

\* an Entity was constructed last, from a raw record with one field
HasField ==
    made # << >> /\ made[1].kind = "Entity" /\ Len(made[1].data.fieldInstances) = 1

\* the raw field of that record, and the Field made from it
RawFieldMade == made[1].data.fieldInstances[1]
FieldMade == made[1].fields[RawFieldMade.__identifier]

\* C18: for a __type of the grammar parseField yields the discriminant
\* that is the scalar type name, or Enum for an enum reference, with the
\* suffix Array exactly when the __type is an array; it is one of the 16
\* values of FieldType
C18_DiscriminantOfGrammar ==
    HasField
    => \A t \in TypeTable :
          t.text = RawFieldMade.__type
          => /\ made[1].raised = "none"
             /\ FieldMade.type = (IF t.isEnum THEN "Enum" ELSE t.inner)
                                 \o (IF t.isArray THEN "Array" ELSE "")
             /\ FieldMade.type \in FieldType

\* C18 witness: an Entity made with a field of an array of an enum
C18_Witness ==
    /\ HasField
    /\ RawFieldMade.__type = "Array<LocalEnum.Color>"
    /\ made[1].raised = "none"
    /\ FieldMade.type = "EnumArray"

\* the identifiers of the enums the project defines, its own and external
DefinedEnums ==
    {data.defs.enums[i].identifier : i \in 1..Len(data.defs.enums)}
    \cup {data.defs.externalEnums[i].identifier : i \in 1..Len(data.defs.externalEnums)}

\* C19: a field whose __type refers to an enum of the project (LocalEnum
\* or ExternalEnum, scalar or array) carries a ref that is an Enum of the
\* World whose id is the enum name of the __type
C19_EnumRefOfWorld ==
    HasField
    => \A t \in TypeTable :
          (t.text = RawFieldMade.__type /\ t.isEnum /\ t.inner \in DefinedEnums)
          => /\ made[1].raised = "none"
             /\ FieldMade.hasRef
             /\ FieldMade.ref # NoEnum
             /\ FieldMade.ref.id = t.inner

\* C20: for a __type that is not of the grammar parseField raises an error
\* naming the field and the entity, and no Field is built
C20_NonGrammarRaises ==
    (HasField /\ RawFieldMade.__type \notin GrammarTypes)
    => /\ made[1].raised = "Error"
       /\ made[1].errField = RawFieldMade.__identifier
       /\ made[1].errEntity = made[1].data.__identifier
       /\ made[1].fields = NoFields

\* the raw value is a two-number tuple [a, b]
IsTuple(value) ==
    /\ value.kind = "array"
    /\ Len(value.items) = 2
    /\ \A i \in 1..2 : value.items[i].kind = "scalar"

\* an Entity was made, without an error, from a record with one field of
\* the __type
FieldOfType(type) ==
    HasField /\ made[1].raised = "none" /\ RawFieldMade.__type = type

\* C21: a Point field with the raw value [a, b] has the value {x: a, y: b},
\* and one with the raw value null has the value null
C21_PointFromTuple ==
    FieldOfType("Point")
    => /\ RawFieldMade.__value = NullValue => FieldMade.value = NullValue
       /\ IsTuple(RawFieldMade.__value)
             => FieldMade.value = XY(RawFieldMade.__value.items[1].v,
                                     RawFieldMade.__value.items[2].v)

\* the { x, y } structure of a raw point, in either raw encoding
PointOf(value) ==
    IF IsTuple(value) THEN XY(value.items[1].v, value.items[2].v)
    ELSE XY(value.cx, value.cy)

\* C22: the value of a PointArray field is an array as long as the raw
\* array, and its element i is the { x, y } structure of raw element i
C22_PointArrayMapped ==
    FieldOfType("Array<Point>")
    => /\ FieldMade.value.kind = "array"
       /\ Len(FieldMade.value.items) = Len(RawFieldMade.__value.items)
       /\ \A i \in 1..Len(RawFieldMade.__value.items) :
             FieldMade.value.items[i] = PointOf(RawFieldMade.__value.items[i])

\* a Layer was constructed last, without an error
LayerMade == made # << >> /\ made[1].kind = "NewLayer" /\ made[1].raised = "none"

\* the payloads of the Layer made last that are not null
Payloads ==
    {name \in {"AutoLayer", "Entities", "IntGrid", "Tiles"} :
        ~(CASE name = "AutoLayer" -> made[1].autoLayerTiles
            [] name = "Entities" -> made[1].entities
            [] name = "IntGrid" -> made[1].intGrid
            [] name = "Tiles" -> made[1].gridTiles).isNull}

\* C23: a Layer of one of the four types has exactly one payload that is
\* not null, the one of its type
C23_OnePayload ==
    (LayerMade /\ made[1].data.__type \in LayerType)
    => Payloads = {made[1].data.__type}

\* C23 witness: an IntGrid Layer made from a raw record that also carries
\* auto-layer tiles
C23_Witness ==
    /\ LayerMade
    /\ made[1].data.__type = "IntGrid"
    /\ made[1].data.autoLayerTiles # << >>
    /\ Len(made[1].data.intGrid) = 2
    /\ ~made[1].intGrid.isNull

\* C24: the construction of a Layer from a raw record whose type is none
\* of the four raises an error, and no Layer is made
C24_UnknownTypeRaises ==
    (made # << >> /\ made[1].kind = "NewLayer" /\ made[1].data.__type \notin LayerType)
    => made[1].raised # "none"

\* an IntGrid Layer was constructed last, without an error
IntGridMade == LayerMade /\ made[1].data.__type = "IntGrid"

\* intGrid[x][y] of the Layer made last: Undefined for an empty cell, for a
\* cell past the column, and where intGrid[x] is no array
GridCell(x, y) ==
    LET column == ColumnAt(made[1].intGrid.items, x)
    IN  IF column.isNull \/ y >= Len(column.items) THEN Undefined
        ELSE column.items[y + 1]

\* C25: for every raw entry {coordId, v} of an IntGrid layer of width W,
\* intGrid[coordId mod W][floor(coordId / W)] is v
C25_EntryAtItsCell ==
    IntGridMade
    => \A i \in 1..Len(made[1].data.intGrid) :
          LET entry == made[1].data.intGrid[i]
              W == made[1].data.__cWid
          IN  GridCell(entry.coordId % W, entry.coordId \div W) = entry.v

\* C25 witness: an IntGrid Layer of width 3 and height 2 made from the
\* entries of the cells 5 and 1
C25_Witness ==
    /\ IntGridMade
    /\ made[1].data.__cWid = 3
    /\ made[1].data.intGrid = <<[coordId |-> 5, v |-> 1], [coordId |-> 1, v |-> 2]>>
    /\ GridCell(2, 1) = 1
    /\ GridCell(1, 0) = 2

\* the cells of the raw entries of the Layer made last
CellsGiven ==
    {<<made[1].data.intGrid[i].coordId % made[1].data.__cWid,
       made[1].data.intGrid[i].coordId \div made[1].data.__cWid>> :
        i \in 1..Len(made[1].data.intGrid)}

\* C26: the grid of an IntGrid layer of width W and height H is dense:
\* intGrid has W columns, each an array of H cells, and every cell that no
\* raw entry gives holds 0
C26_GridIsDense ==
    IntGridMade
    => /\ Len(made[1].intGrid.items) = made[1].data.__cWid
       /\ \A x \in 0..(made[1].data.__cWid - 1) :
             /\ ~ColumnAt(made[1].intGrid.items, x).isNull
             /\ Len(ColumnAt(made[1].intGrid.items, x).items) = made[1].data.__cHei
             /\ \A y \in 0..(made[1].data.__cHei - 1) :
                   <<x, y>> \notin CellsGiven => GridCell(x, y) = 0

\* the raw layer is well formed: its type is one of the four and every
\* field of its entities has a __type of the grammar
WellFormedLayer(raw) ==
    /\ raw.__type \in LayerType
    /\ \A i \in 1..Len(raw.entityInstances) :
          \A k \in 1..Len(raw.entityInstances[i].fieldInstances) :
             raw.entityInstances[i].fieldInstances[k].__type \in GrammarTypes

\* the raw project of the World made last is well formed
WellFormedProject ==
    LET layerInstances == made[1].data.levels[1].layerInstances
    IN  \A i \in 1..Len(layerInstances.items) : WellFormedLayer(layerInstances.items[i])

\* C27: the construction of a World from a well-formed project without a
\* definitions section succeeds, with empty tileset and enum tables, also
\* when a level of the project has an IntGrid layer or a layer of entities
C27_NoDefsConstructs ==
    (made # << >> /\ made[1].kind = "World" /\ made[1].data.defs.absent
        /\ WellFormedProject)
    => /\ made[1].raised = "none"
       /\ made[1].tilesetIds = << >>
       /\ made[1].enumIds = << >>
       /\ made[1].levelIds = <<"Level1">>

\* C28: when the read of a level file fails, the pending call is rejected
\* with the I/O error, no exception is raised outside the promise, and
\* levelMap, levelIds and levels stay as they are
C28_ReadFailureOnlyRejects ==
    [][\A f \in 1..Len(fetches) :
          (fetches[f].state = "inflight" /\ fetches'[f].state = "failed")
          => /\ calls'[fetches[f].call].state = "rejected"
             /\ calls'[fetches[f].call].err = "IOError"
             /\ fetches'[f].uncaught = "none"
             /\ UNCHANGED <<levelMap, levelIds, levels>>]_vars

\* C29: in external-levels mode, when a read of level.neighbours has raised
\* because a neighbouring level was not loaded, a read made once the
\* neighbouring levels are loaded returns the complete list, one entry per
\* raw neighbour entry
C29_FailureNotCached ==
    [][(/\ IsAccess
        /\ data.externalLevels
        /\ \E a \in 1..Len(accesses) :
              /\ accesses[a].obj = LastAccess.obj
              /\ accesses[a].raised = "NeighbourMissing"
              /\ Present(accesses[a].errUid)
        /\ \A j \in 1..Len(RawNeighbours(LastAccess.obj)) :
              Present(RawNeighbours(LastAccess.obj)[j].levelUid))
       => /\ LastAccess.raised = "none"
          /\ Len(LastAccess.items) = Len(RawNeighbours(LastAccess.obj))
          /\ \A j \in 1..Len(RawNeighbours(LastAccess.obj)) :
                LastAccess.items[j].level.uid = RawNeighbours(LastAccess.obj)[j].levelUid]_vars

\* C30: in external-levels mode the three indices agree in every state:
\* levels[i] is defined exactly when levelIds[i] is, levelIds[i] is then
\* levels[i].id, and the defined entries of levelIds are the keys of
\* levelMap, with levelMap[levelIds[i]] being levels[i]
C30_IndicesAgree ==
    data.externalLevels
    => /\ Len(levels) = Len(levelIds)
       /\ \A i \in 1..Len(levels) :
             /\ levels[i] = NoLevel <=> levelIds[i] = Hole
             /\ levels[i] # NoLevel
                   => /\ levelIds[i] = levels[i].id
                      /\ levelIds[i] \in DOMAIN levelMap
                      /\ levelMap[levelIds[i]] = levels[i]
       /\ DOMAIN levelMap = {levelIds[i] : i \in 1..Len(levelIds)} \ {Hole}

\* C30 witness: two calls have each fetched the same level and both files
\* have arrived, after which a level is loaded at index 1 with index 0 empty
C30_Witness ==
    /\ data.externalLevels
    /\ Len(levels) = 2
    /\ levels[1] = NoLevel
    /\ levels[2] # NoLevel
    /\ \E f, g \in 1..Len(fetches) :
          /\ f # g
          /\ fetches[f].path = fetches[g].path
          /\ fetches[f].state = "ok"
          /\ fetches[g].state = "ok"
====
